---- MODULE Spec2Model ----
(***************************************************************************)
(* TruthLens: the service layer (services/geminiService.ts) and the two    *)
(* screens that call it (AwarenessTemplatesPage, TrendingTopicsPage).      *)
(*                                                                         *)
(* A JavaScript string is a sequence of one-character strings, so that     *)
(* trim, startsWith, substring, split, the trending-topics regular         *)
(* expression and JSON.parse are computed character by character.          *)
(* An optional value (T | null) is a sequence of length 0 or 1.            *)
(***************************************************************************)
EXTENDS Integers, Sequences, FiniteSets, TLC

VARIABLES
    \* ---- a direct call of one service operation
    op,             \* the operation being called, or "idle"
    phase,          \* "idle" | "awaiting" (suspended at await generateContent) | "returned"
    response,       \* how the gateway call settled
    topics,         \* getTrendingTopics: the local topics (line 185), before the slice
    returned,       \* what the operation gave its caller
    inner,          \* the JSON candidate the model sent, before any fence was put around it
    fence,          \* the fence put around it
    lines,          \* the lines the model wrote, each with the record it describes
    \* ---- AwarenessTemplatesPage
    prompt,         \* useState('')
    tplLoading,     \* isLoading, useState(false)
    tplResult,      \* result, useState(null)
    tplError,       \* error, useState(null)
    tplInFlight,    \* the submissions whose gateway call has not settled
    tplIssued,      \* the number of submissions that called the service
    tplApplied,     \* the submission whose outcome the screen shows
    tplOutcome,     \* how that submission's gateway call settled
    tplPrompts,     \* every prompt generateAwarenessTemplateText was called with
    \* ---- TrendingTopicsPage
    ttPc,           \* "constructed" | "fetching" | "settled"
    ttTopics,       \* topics, useState([])
    ttLoading,      \* isLoading, useState(true)
    ttError,        \* error, useState(null)
    ttInFlight,     \* the number of getTrendingTopics calls that have not settled
    ttOutcome       \* how the gateway call settled

svcVars == <<op, phase, response, topics, returned, inner, fence, lines>>
tplVars == <<prompt, tplLoading, tplResult, tplError, tplInFlight, tplIssued, tplApplied,
             tplOutcome, tplPrompts>>
ttVars == <<ttPc, ttTopics, ttLoading, ttError, ttInFlight, ttOutcome>>
vars == <<svcVars, tplVars, ttVars>>

-----------------------------------------------------------------------------
(* String literals of the source, as character sequences.                  *)
\* The grave accent, which a string of this notation cannot hold.
Bq == "grave"
FenceJson == <<Bq, Bq, Bq, "j", "s", "o", "n">>
Fence == <<Bq, Bq, Bq>>
RiskLit == <<"R", "i", "s", "k", ":">>
CredibilityLit == <<"C", "r", "e", "d", "i", "b", "i", "l", "i", "t", "y", ":">>
LitTrue == <<"t", "r", "u", "e">>
LitFalse == <<"f", "a", "l", "s", "e">>
LitNull == <<"n", "u", "l", "l">>
K_classification == <<"c", "l", "a", "s", "s", "i", "f", "i", "c", "a", "t", "i", "o", "n">>
K_confidence == <<"c", "o", "n", "f", "i", "d", "e", "n", "c", "e">>
K_explanation == <<"e", "x", "p", "l", "a", "n", "a", "t", "i", "o", "n">>
K_riskLevel == <<"r", "i", "s", "k", "L", "e", "v", "e", "l">>
K_credibilityScore == <<"c", "r", "e", "d", "i", "b", "i", "l", "i", "t", "y", "S", "c", "o", "r", "e">>
K_tags == <<"t", "a", "g", "s">>
K_summary == <<"s", "u", "m", "m", "a", "r", "y">>
K_claims == <<"c", "l", "a", "i", "m", "s">>
K_title == <<"t", "i", "t", "l", "e">>
K_highlights == <<"h", "i", "g", "h", "l", "i", "g", "h", "t", "s">>
K_tips == <<"t", "i", "p", "s">>
S_Uncertain == <<"U", "n", "c", "e", "r", "t", "a", "i", "n">>
S_ImageErr == <<"A", "n", " ", "e", "r", "r", "o", "r", " ", "o", "c", "c", "u", "r", "r", "e", "d", " ", "d", "u", "r", "i", "n", "g", " ", "a", "n", "a", "l", "y", "s", "i", "s", ".">>
S_VoiceErr == <<"A", "n", " ", "e", "r", "r", "o", "r", " ", "o", "c", "c", "u", "r", "r", "e", "d", " ", "d", "u", "r", "i", "n", "g", " ", "v", "o", "i", "c", "e", " ", "a", "n", "a", "l", "y", "s", "i", "s", ".">>
S_High == <<"H", "i", "g", "h">>
S_Medium == <<"M", "e", "d", "i", "u", "m">>
S_Low == <<"L", "o", "w">>
S_ArticleErr == <<"E", "r", "r", "o", "r", " ", "d", "u", "r", "i", "n", "g", " ", "a", "n", "a", "l", "y", "s", "i", "s", ".">>
S_Error == <<"E", "r", "r", "o", "r">>
S_NoContent == <<"C", "o", "u", "l", "d", " ", "n", "o", "t", " ", "g", "e", "n", "e", "r", "a", "t", "e", " ", "c", "o", "n", "t", "e", "n", "t", ".">>
S_CouldNotParse == <<"C", "o", "u", "l", "d", " ", "n", "o", "t", " ", "p", "a", "r", "s", "e", " ", "t", "r", "e", "n", "d", "i", "n", "g", " ", "t", "o", "p", "i", "c", "s", ".">>
S_ErrorFetching == <<"E", "r", "r", "o", "r", " ", "f", "e", "t", "c", "h", "i", "n", "g", " ", "t", "o", "p", "i", "c", "s", ".">>
O_1 == <<"1", ".", " ">>
O_12 == <<"1", "2", ".">>
T_FakeVaccine == <<"F", "a", "k", "e", " ", "v", "a", "c", "c", "i", "n", "e", " ", "c", "l", "a", "i", "m">>
T_5G == <<"5", "G", "-", "t", "o", "w", "e", "r", "s">>
T_Masks == <<"M", "a", "s", "k", "s", " ", "-", " ", "a", " ", "h", "o", "a", "x">>
T_Moon == <<"M", "o", "o", "n">>
L_Critical == <<"C", "r", "i", "t", "i", "c", "a", "l">>
N_12 == <<"1", "2">>
N_0 == <<"0">>
N_100 == <<"1", "0", "0">>
N_150 == <<"1", "5", "0">>
N_007 == <<"0", "0", "7">>
N_90 == <<"9", "0">>
SepDash == <<" ", "-", " ">>
SepTight == <<"-">>
SepWide == <<" ", " ", "-", "\t", " ">>
E_Line == <<"1", ".", " ", "F", "a", "k", "e", " ", "v", "a", "c", "c", "i", "n", "e", " ", "c", "l", "a", "i", "m", " ", "-", " ", "R", "i", "s", "k", ":", " ", "H", "i", "g", "h", " ", "-", " ", "C", "r", "e", "d", "i", "b", "i", "l", "i", "t", "y", ":", " ", "1", "2">>
X_Intro == <<"H", "e", "r", "e", " ", "a", "r", "e", " ", "t", "h", "e", " ", "t", "o", "p", "i", "c", "s", ":">>
X_Top == <<"T", "o", "p", " ", "5", ":">>
X_NoCredibility == <<"F", "o", "o", " ", "-", " ", "R", "i", "s", "k", ":", " ", "H", "i", "g", "h">>
X_LowerCase == <<"f", "o", "o", " ", "-", " ", "r", "i", "s", "k", ":", " ", "l", "o", "w", " ", "-", " ", "c", "r", "e", "d", "i", "b", "i", "l", "i", "t", "y", ":", " ", "3">>
X_Negative == <<"F", "o", "o", " ", "-", " ", "R", "i", "s", "k", ":", " ", "L", "o", "w", " ", "-", " ", "C", "r", "e", "d", "i", "b", "i", "l", "i", "t", "y", ":", " ", "-", "5">>
J_Template == <<"{", "\"", "t", "i", "t", "l", "e", "\"", ":", "\"", "T", "\"", ",", "\"", "h", "i", "g", "h", "l", "i", "g", "h", "t", "s", "\"", ":", "[", "\"", "h", "\"", "]", ",", "\"", "t", "i", "p", "s", "\"", ":", "[", "]", "}">>
J_Verdict == <<"{", "\"", "c", "l", "a", "s", "s", "i", "f", "i", "c", "a", "t", "i", "o", "n", "\"", ":", " ", "\"", "A", "u", "t", "h", "e", "n", "t", "i", "c", "\"", ",", " ", "\"", "c", "o", "n", "f", "i", "d", "e", "n", "c", "e", "\"", ":", " ", "9", "7", "}">>
J_Null == <<"n", "u", "l", "l">>
J_Number == <<"1", "2">>
J_Empty == <<>>
J_Prose == <<"S", "o", "r", "r", "y", ",", " ", "I", " ", "c", "a", "n", "n", "o", "t", " ", "h", "e", "l", "p", ".">>
J_Open == <<"{", "\"", "t", "i", "t", "l", "e", "\"", ":", "\"", "T", "\"">>
J_TrailingComma == <<"{", "\"", "t", "i", "t", "l", "e", "\"", ":", "\"", "T", "\"", ",", "}">>
F_Json == <<Bq, Bq, Bq, "j", "s", "o", "n">>
F_JsonNl == <<Bq, Bq, Bq, "j", "s", "o", "n", "\n">>
F_JsonOuter == <<" ", "\n", Bq, Bq, Bq, "j", "s", "o", "n", "\n">>
F_Plain == <<Bq, Bq, Bq>>
F_PlainNl == <<Bq, Bq, Bq, "\n">>
F_Close == <<Bq, Bq, Bq>>
F_CloseNl == <<"\n", Bq, Bq, Bq>>
F_CloseOuter == <<"\n", Bq, Bq, Bq, "\n", " ">>

-----------------------------------------------------------------------------
(* Strings.                                                                *)

\* White space of String.prototype.trim and of the regular expression's \s
\* (the characters of it that the inputs use).
WhiteSpace == {" ", "\t", "\n", "\r", "\f"}

\* White space of the JSON grammar: form feed is not part of it.
JsonWhiteSpace == {" ", "\t", "\n", "\r"}

\* Line terminators: the regular expression's . matches none of them.
LineTerminator == {"\n", "\r"}

Digit == {"0", "1", "2", "3", "4", "5", "6", "7", "8", "9"}

DigitValue(c) ==
    CASE c = "0" -> 0 [] c = "1" -> 1 [] c = "2" -> 2 [] c = "3" -> 3 [] c = "4" -> 4
      [] c = "5" -> 5 [] c = "6" -> 6 [] c = "7" -> 7 [] c = "8" -> 8 [] c = "9" -> 9

\* F applied to the value of v, computed once.
With(v, F(_)) == CHOOSE r \in {F(x) : x \in {v}} : TRUE

\* The character of s at 1-based position i, or "" past either end.
At(s, i) == IF i >= 1 /\ i <= Len(s) THEN s[i] ELSE ""

\* Whether lit occurs in s at position i.
HasAt(s, i, lit) ==
    /\ i >= 1
    /\ i + Len(lit) - 1 <= Len(s)
    /\ \A k \in 1..Len(lit) : s[i + k - 1] = lit[k]

\* The first position at or after i whose character is not in set.
SkipSet(str, from, set) ==
    With(str, LAMBDA s :
    With(from, LAMBDA i :
      LET skip[k \in 1..(Len(s) + 1)] ==
              IF k <= Len(s) /\ s[k] \in set THEN skip[k + 1] ELSE k
      IN  IF i > Len(s) THEN i ELSE skip[i]))

\* The last position at or before i whose character is not in set (0 if none).
SkipSetBack(str, i, set) ==
    With(str, LAMBDA s :
      LET skip[k \in 0..Len(s)] ==
              IF k >= 1 /\ s[k] \in set THEN skip[k - 1] ELSE k
      IN  skip[i])

\* String.prototype.trim
trim(str) ==
    With(str, LAMBDA s :
      SubSeq(s, SkipSet(s, 1, WhiteSpace), SkipSetBack(s, Len(s), WhiteSpace)))

\* String.prototype.startsWith
startsWith(s, prefix) == HasAt(s, 1, prefix)

Clamp(n, lo, hi) == IF n < lo THEN lo ELSE IF n > hi THEN hi ELSE n

\* String.prototype.substring(start, end), 0-based, end excluded: both indices
\* are clamped to 0..length and swapped when start > end.
substring(s, start, end) ==
    With(Clamp(start, 0, Len(s)), LAMBDA a :
    With(Clamp(end, 0, Len(s)), LAMBDA b :
      IF a <= b THEN SubSeq(s, a + 1, b) ELSE SubSeq(s, b + 1, a)))

\* Array.prototype.join
Join(array, sep) ==
    With(array, LAMBDA parts :
      LET from[i \in 1..(Len(parts) + 1)] ==
              IF i > Len(parts) THEN <<>>
              ELSE IF i = Len(parts) THEN parts[i]
              ELSE parts[i] \o sep \o from[i + 1]
      IN  from[1])

\* The least element of a non-empty set of integers.
Min(set) == CHOOSE x \in set : \A y \in set : x <= y

\* The greatest element of a non-empty set of integers.
Max(set) == CHOOSE x \in set : \A y \in set : x >= y

\* The first position at or after i whose character is in set, or the
\* position after the end.
FirstIn(s, i, set) == Min({k \in i..Len(s) : s[k] \in set} \cup {Len(s) + 1})

\* String.prototype.split on a one-character separator: the pieces between
\* consecutive separators, so that "" splits to [""].
split(str, sepChar) ==
    With(str, LAMBDA s :
    With({0} \cup {i \in 1..Len(s) : s[i] = sepChar}, LAMBDA cuts :
      [k \in 1..Cardinality(cuts) |->
          With(CHOOSE c \in cuts : Cardinality({x \in cuts : x < c}) = k - 1, LAMBDA c :
            SubSeq(s, c + 1, FirstIn(s, c + 1, {sepChar}) - 1))]))

\* parseInt(s, 10) of a string that starts with a digit (the regular
\* expression's \d+ hands it nothing else): the value of its leading digits.
parseInt(str) ==
    With(str, LAMBDA s :
      LET \* the value of the digits before position i
          value[i \in 1..(Len(s) + 1)] ==
              IF i = 1 THEN 0 ELSE value[i - 1] * 10 + DigitValue(s[i - 1])
      IN  value[SkipSet(s, 1, Digit)])

-----------------------------------------------------------------------------
(* JSON values and JSON.parse.  A value is [t, v]: t the type, v a         *)
(* sequence (the number, the characters, the elements, or the members as   *)
(* <<key, value>> pairs in insertion order).  The grammar covers objects,  *)
(* arrays, strings without escapes, integers and the three literals.       *)

JNum(n) == [t |-> "number", v |-> <<n>>]
JStr(chars) == [t |-> "string", v |-> chars]
JArr(elems) == [t |-> "array", v |-> elems]
JObj(members) == [t |-> "object", v |-> members]
JLit(name) == [t |-> name, v |-> <<>>]

ParseFail == [ok |-> FALSE, val |-> JLit("null"), next |-> 0]
ParseOk(val, next) == [ok |-> TRUE, val |-> val, next |-> next]

\* Characters a JSON string may hold unescaped: not the quotation mark, the
\* backslash or a control character.
JsonStringChar(c) == c \notin {"\"", "\\", "\n", "\r", "\t", "\f"}

\* The number at i: -? (0 | [1-9][0-9]*)
ParseNumber(s, i) ==
    With(IF At(s, i) = "-" THEN i + 1 ELSE i, LAMBDA d :
    With(IF At(s, d) = "0" THEN d + 1 ELSE SkipSet(s, d, Digit), LAMBDA e :
      IF At(s, d) \notin Digit THEN ParseFail
      ELSE With(parseInt(SubSeq(s, d, e - 1)), LAMBDA n :
             ParseOk(JNum(IF d > i THEN 0 - n ELSE n), e))))

\* The string at i: a quotation mark, unescaped characters, a quotation mark.
ParseString(str, i) ==
    With(str, LAMBDA s :
      LET \* the first position from k on that ends the run of string characters
          close[k \in 1..(Len(s) + 1)] ==
              IF k <= Len(s) /\ JsonStringChar(s[k]) THEN close[k + 1] ELSE k
      IN  IF At(s, i) # "\"" THEN ParseFail
          ELSE With(close[i + 1], LAMBDA j :
                 IF At(s, j) = "\""
                 THEN ParseOk(JStr(SubSeq(s, i + 1, j - 1)), j + 1)
                 ELSE ParseFail))

\* Setting a key of an object: a repeated key keeps its place and takes the
\* later value.
PutMember(members, key, val) ==
    IF \E m \in 1..Len(members) : members[m][1] = key
    THEN [m \in 1..Len(members) |->
            IF members[m][1] = key THEN <<key, val>> ELSE members[m]]
    ELSE Append(members, <<key, val>>)

RECURSIVE ParseValue(_, _)
RECURSIVE ParseElements(_, _, _)
RECURSIVE ParseMembers(_, _, _)

\* The value that starts at i (white space already skipped).
ParseValue(s, at) ==
    With(at, LAMBDA i :
    With(At(s, i), LAMBDA c :
      IF c = "\"" THEN ParseString(s, i)
      ELSE IF c = "[" THEN
          With(SkipSet(s, i + 1, JsonWhiteSpace), LAMBDA j :
            IF At(s, j) = "]" THEN ParseOk(JArr(<<>>), j + 1)
            ELSE ParseElements(s, j, <<>>))
      ELSE IF c = "{" THEN
          With(SkipSet(s, i + 1, JsonWhiteSpace), LAMBDA j :
            IF At(s, j) = "}" THEN ParseOk(JObj(<<>>), j + 1)
            ELSE ParseMembers(s, j, <<>>))
      ELSE IF c \in Digit \/ c = "-" THEN ParseNumber(s, i)
      ELSE IF HasAt(s, i, LitTrue) THEN ParseOk(JLit("true"), i + 4)
      ELSE IF HasAt(s, i, LitFalse) THEN ParseOk(JLit("false"), i + 5)
      ELSE IF HasAt(s, i, LitNull) THEN ParseOk(JLit("null"), i + 4)
      ELSE ParseFail))

\* The elements of an array from i, up to and including its "]".
ParseElements(s, i, elems) ==
    With(elems, LAMBDA acc :
    With(ParseValue(s, SkipSet(s, i, JsonWhiteSpace)), LAMBDA r :
      IF ~r.ok THEN ParseFail
      ELSE With(SkipSet(s, r.next, JsonWhiteSpace), LAMBDA j :
             IF At(s, j) = "," THEN ParseElements(s, j + 1, Append(acc, r.val))
             ELSE IF At(s, j) = "]" THEN ParseOk(JArr(Append(acc, r.val)), j + 1)
             ELSE ParseFail)))

\* The members of an object from i, up to and including its "}".
ParseMembers(s, i, members) ==
    With(members, LAMBDA acc :
    With(ParseString(s, SkipSet(s, i, JsonWhiteSpace)), LAMBDA key :
      IF ~key.ok THEN ParseFail
      ELSE
        With(SkipSet(s, key.next, JsonWhiteSpace), LAMBDA k :
          IF At(s, k) # ":" THEN ParseFail
          ELSE
            With(ParseValue(s, SkipSet(s, k + 1, JsonWhiteSpace)), LAMBDA r :
              IF ~r.ok THEN ParseFail
              ELSE
                With(SkipSet(s, r.next, JsonWhiteSpace), LAMBDA j :
                  IF At(s, j) = ","
                  THEN ParseMembers(s, j + 1, PutMember(acc, key.val.v, r.val))
                  ELSE IF At(s, j) = "}"
                  THEN ParseOk(JObj(PutMember(acc, key.val.v, r.val)), j + 1)
                  ELSE ParseFail)))))

\* What a call returns or throws.
Return(val) == [kind |-> "return", val |-> val]
Throw(name) == [kind |-> "throw", val |-> JStr(<<name>>)]

\* JSON.parse: the value, or a SyntaxError when the text is not one JSON
\* value with optional white space around it.
JSONparse(str) ==
    With(str, LAMBDA s :
    With(ParseValue(s, SkipSet(s, 1, JsonWhiteSpace)), LAMBDA r :
      IF r.ok /\ SkipSet(s, r.next, JsonWhiteSpace) = Len(s) + 1
      THEN Return(r.val)
      ELSE Throw("SyntaxError")))

\* A faulty cleanAndParseJson: the text is not trimmed before the fence is
\* looked for.
cleanAndParseJsonUntrimmed(text) ==
    With(text, LAMBDA cleanedText :
      JSONparse(IF startsWith(cleanedText, FenceJson)
                THEN trim(substring(cleanedText, 7, Len(cleanedText) - 3))
                ELSE IF startsWith(cleanedText, Fence)
                THEN trim(substring(cleanedText, 3, Len(cleanedText) - 3))
                ELSE cleanedText))

\* cleanAndParseJson (lines 13-21)
cleanAndParseJson(text) ==
    With(trim(text), LAMBDA cleanedText :
      JSONparse(IF startsWith(cleanedText, FenceJson)
                THEN trim(substring(cleanedText, 7, Len(cleanedText) - 3))
                ELSE IF startsWith(cleanedText, Fence)
                THEN trim(substring(cleanedText, 3, Len(cleanedText) - 3))
                ELSE cleanedText))

-----------------------------------------------------------------------------
\* The trending-topics line pattern (line 186):
\*   /(?:\d+\.\s*)?(.*?)\s*-\s*Risk:\s*(.*?)\s*-\s*Credibility:\s*(\d+)/
\* matched as a backtracking matcher does: the leftmost start, the optional
\* ordinal and every \s* as long as possible, every (.*?) as short as
\* possible.  A position of 0 stands for "no match".

\* \s*-\s*Credibility:\s* at e, followed by a digit: where the digits start.
CredibilityAt(s, e) ==
    With(SkipSet(s, e, WhiteSpace), LAMBDA a :
      IF At(s, a) # "-" THEN 0
      ELSE With(SkipSet(s, a + 1, WhiteSpace), LAMBDA b :
        IF ~HasAt(s, b, CredibilityLit) THEN 0
        ELSE With(SkipSet(s, b + Len(CredibilityLit), WhiteSpace), LAMBDA c :
          IF At(s, c) \in Digit THEN c ELSE 0)))

\* The second (.*?) from g: the first end after which the rest matches.
Group2End(line, g) ==
    With(line, LAMBDA s :
    With({e \in g..FirstIn(s, g, LineTerminator) : CredibilityAt(s, e) # 0}, LAMBDA ends :
      IF ends = {} THEN 0 ELSE Min(ends)))

\* \s*-\s*Risk:\s* at e, with the rest matching after it: where group 2 starts.
RiskAt(s, e) ==
    With(SkipSet(s, e, WhiteSpace), LAMBDA a :
      IF At(s, a) # "-" THEN 0
      ELSE With(SkipSet(s, a + 1, WhiteSpace), LAMBDA b :
        IF ~HasAt(s, b, RiskLit) THEN 0
        ELSE With(SkipSet(s, b + Len(RiskLit), WhiteSpace), LAMBDA g :
          IF Group2End(s, g) # 0 THEN g ELSE 0)))

\* The positions of s where \s*-\s*Risk:\s*(.*?)\s*-\s*Credibility:\s*(\d+)
\* matches: the ends the first (.*?) may have.
Group1Ends(s) == {e \in 1..(Len(s) + 1) : RiskAt(s, e) # 0}

\* The first (.*?) from p: the first of ends it can reach.
Group1End(s, ends, p) ==
    With({e \in ends : p <= e /\ e <= FirstIn(s, p, LineTerminator)}, LAMBDA reached :
      IF reached = {} THEN 0 ELSE Min(reached))

\* After "\d+\.", the \s* gives back white space from hi down to lo until the
\* rest matches: where group 1 starts.
OrdinalRest(s, ends, lo, hi) ==
    With({p \in lo..hi : Group1End(s, ends, p) # 0}, LAMBDA starts :
      IF starts = {} THEN 0 ELSE Max(starts))

\* Where group 1 starts for a match that starts at st.  (\d+ giving back a
\* digit leaves a digit where the "." must be, so only the whole run counts.)
Group1Start(s, ends, st) ==
    With(SkipSet(s, st, Digit), LAMBDA d :
      With(IF d > st /\ At(s, d) = "."
           THEN OrdinalRest(s, ends, d + 1, SkipSet(s, d + 1, WhiteSpace))
           ELSE 0, LAMBDA withOrdinal :
        IF withOrdinal # 0 THEN withOrdinal
        ELSE IF Group1End(s, ends, st) # 0 THEN st
        ELSE 0))

\* The leftmost position where the pattern matches.
MatchStart(s, ends) ==
    With({st \in 1..(Len(s) + 1) : Group1Start(s, ends, st) # 0}, LAMBDA starts :
      IF starts = {} THEN 0 ELSE Min(starts))

\* line.match(pattern): null, or the three captured groups.
lineMatch(line) ==
    With(line, LAMBDA s :
    With(Group1Ends(s), LAMBDA ends :
      IF ends = {} THEN <<>>
      ELSE
        With(MatchStart(s, ends), LAMBDA st :
        With(Group1Start(s, ends, st), LAMBDA p :
        With(Group1End(s, ends, p), LAMBDA e1 :
        With(RiskAt(s, e1), LAMBDA g :
        With(Group2End(s, g), LAMBDA e2 :
        With(CredibilityAt(s, e2), LAMBDA c :
          << <<SubSeq(s, p, e1 - 1),
               SubSeq(s, g, e2 - 1),
               SubSeq(s, c, SkipSet(s, c, Digit) - 1)>> >>))))))))

\* A faulty replace: the quotation marks are kept.
keepQuotes(s) == s

\* .replace(/^"|"$/g, ''): a quotation mark at the start and one at the end.
stripQuotes(s) ==
    With(IF At(s, 1) = "\"" THEN Tail(s) ELSE s, LAMBDA t :
      IF At(t, Len(t)) = "\"" THEN SubSeq(t, 1, Len(t) - 1) ELSE t)

\* The map callback (lines 185-194): null, or the record of the line.
lineToTopic(line) ==
    With(lineMatch(line), LAMBDA match :
      IF match # <<>>
      THEN << [topic |-> stripQuotes(trim(match[1][1])),
               risk  |-> trim(match[1][2]),
               score |-> parseInt(match[1][3])] >>
      ELSE <<>>)

\* A faulty map and filter: the records are then sorted by falling score.
mapFilterSortedByScore(array) ==
    With(array, LAMBDA ls :
      LET from[i \in 1..(Len(ls) + 1)] ==
              IF i > Len(ls) THEN <<>> ELSE lineToTopic(ls[i]) \o from[i + 1]
          recs == from[1]
          before(i) == {j \in 1..Len(recs) :
                          \/ recs[j].score > recs[i].score
                          \/ recs[j].score = recs[i].score /\ j < i}
      IN  [k \in 1..Len(recs) |->
             recs[CHOOSE i \in 1..Len(recs) : Cardinality(before(i)) = k - 1]])

\* .map(...).filter(item => item !== null) (lines 185-195)
mapFilter(array) ==
    With(array, LAMBDA ls :
      LET from[i \in 1..(Len(ls) + 1)] ==
              IF i > Len(ls) THEN <<>> ELSE lineToTopic(ls[i]) \o from[i + 1]
      IN  from[1])

\* The local topics (line 185) for a response text.
topicsOf(text) == mapFilter(split(text, "\n"))

\* A faulty slice: the whole array.
sliceAll(arr, n) == arr

\* Array.prototype.slice(0, n)
slice0(arr, n) == SubSeq(arr, 1, IF Len(arr) < n THEN Len(arr) ELSE n)

-----------------------------------------------------------------------------
(* The gateway and the service operations.                                 *)

\* How ai.models.generateContent settled: rejected, or resolved with a text,
\* or resolved with a response that has no text (response.text undefined).
Rejected == [kind |-> "rejected", text |-> <<>>]
NoText == [kind |-> "notext", text |-> <<>>]
Resolved(text) == [kind |-> "text", text |-> text]

\* await generateContent(...) followed by cleanAndParseJson(response.text):
\* the try block of the four JSON operations.
jsonTry(resp) ==
    IF resp.kind = "rejected" THEN Throw("ApiError")
    ELSE IF resp.kind = "notext" THEN Throw("TypeError")
    ELSE cleanAndParseJson(resp.text)

\* A try without its catch: what the block throws reaches the caller.
tryNoCatch(attempt, fallback) == attempt

\* try { ... } catch (error) { return fallback }
tryCatch(attempt, fallback) ==
    With(attempt, LAMBDA r : IF r.kind = "throw" THEN Return(fallback) ELSE r)

ImageFallback ==
    JObj(<< <<K_classification, JStr(S_Uncertain)>>, <<K_confidence, JNum(0)>>,
            <<K_explanation, JStr(S_ImageErr)>> >>)

VoiceFallback ==
    JObj(<< <<K_classification, JStr(S_Uncertain)>>, <<K_confidence, JNum(0)>>,
            <<K_explanation, JStr(S_VoiceErr)>> >>)

ArticleFallback ==
    JObj(<< <<K_riskLevel, JStr(S_High)>>, <<K_credibilityScore, JNum(0)>>,
            <<K_tags, JArr(<<>>)>>, <<K_summary, JStr(S_ArticleErr)>>,
            <<K_claims, JArr(<<>>)>> >>)

TemplateFallback ==
    JObj(<< <<K_title, JStr(S_Error)>>, <<K_highlights, JArr(<<JStr(S_NoContent)>>)>>,
            <<K_tips, JArr(<<>>)>> >>)

CouldNotParseTopics == << [topic |-> S_CouldNotParse, risk |-> S_Medium, score |-> 50] >>

ErrorFetchingTopics == << [topic |-> S_ErrorFetching, risk |-> S_High, score |-> 0] >>

analyzeImageForAI(resp) == tryCatch(jsonTry(resp), ImageFallback)

analyzeVoiceForAI(resp) == tryCatch(jsonTry(resp), VoiceFallback)

analyzeArticleContent(resp) == tryCatch(jsonTry(resp), ArticleFallback)

generateAwarenessTemplateText(resp) == tryCatch(jsonTry(resp), TemplateFallback)

\* A faulty tail of getTrendingTopics: without line 199, no placeholder.
topicsFrameNoPlaceholder(text) ==
    With(topicsOf(text), LAMBDA found :
      [topics |-> found,
       returned |-> IF Len(found) > 0 THEN Return(slice0(found, 5)) ELSE Return(<<>>)])

\* Lines 184-201 once the call has resolved with a text: the local topics
\* and the value returned.
topicsFrame(text) ==
    With(topicsOf(text), LAMBDA found :
      [topics |-> found,
       returned |-> IF Len(found) > 0 THEN Return(slice0(found, 5))
                    ELSE IF text # <<>> THEN Return(CouldNotParseTopics)
                    ELSE Return(<<>>)])

\* The try block of getTrendingTopics (lines 176-201).
topicsTry(resp) ==
    IF resp.kind = "rejected" THEN [topics |-> <<>>, returned |-> Throw("ApiError")]
    ELSE IF resp.kind = "notext" THEN [topics |-> <<>>, returned |-> Throw("TypeError")]
    ELSE topicsFrame(resp.text)

\* getTrendingTopics (lines 174-206) with its local topics.
getTrendingTopicsFrame(resp) ==
    With(topicsTry(resp), LAMBDA frame :
      [topics |-> frame.topics,
       returned |-> tryCatch(frame.returned, ErrorFetchingTopics)])

getTrendingTopics(resp) == getTrendingTopicsFrame(resp).returned

-----------------------------------------------------------------------------
(* What the model may answer: the bounded inputs.                          *)

\* Most lines of one trending-topics answer.
MaxLines == 6

\* Most lines of an answer made of blank lines only.
MaxBlankLines == 2

\* Most characters of a generated JSON candidate.
MaxInnerLen == 4

\* All sequences over set of length at most n.
SeqsUpTo(set, n) == UNION {[1..k -> set] : k \in 0..n}

\* A line the model wrote: its characters, whether it is of the documented
\* form, and if so the record it describes.
NoRecord == [topic |-> <<>>, risk |-> <<>>, score |-> 0]
OtherLine(raw) == [raw |-> raw, match |-> FALSE, rec |-> NoRecord]

\* A decimal numeral and the integer it denotes.
Numerals == {<<N_12, 12>>, <<N_0, 0>>, <<N_100, 100>>, <<N_150, 150>>, <<N_007, 7>>}

\* [ordinal] [quoted] title - Risk: level - Credibility: integer [suffix]
TopicLine(ordinal, quoted, title, sep, level, numeral, suffix) ==
    [raw |-> ordinal \o (IF quoted THEN <<"\"">> \o title \o <<"\"">> ELSE title)
               \o sep \o RiskLit \o (IF sep = SepTight THEN <<>> ELSE <<" ">>) \o level
               \o sep \o CredibilityLit \o (IF sep = SepTight THEN <<>> ELSE <<" ">>)
               \o numeral[1] \o suffix,
     match |-> TRUE,
     rec |-> [topic |-> title, risk |-> level, score |-> numeral[2]]]

\* The spec's example line, and a second one with a higher score.
LineA == TopicLine(O_1, FALSE, T_FakeVaccine, SepDash, S_High, <<N_12, 12>>, <<>>)
LineB == TopicLine(<<>>, TRUE, T_Moon, SepDash, S_Low, <<N_90, 90>>, <<>>)
LineIntro == OtherLine(X_Top)
LineBlank == OtherLine(<<>>)

\* Every single line of the documented form, over the component pools.
TopicLines ==
    { TopicLine(o, q, t, s, l, n, x) :
        o \in {<<>>, O_1, O_12}, q \in BOOLEAN, t \in {T_FakeVaccine, T_5G, T_Masks},
        s \in {SepDash, SepTight, SepWide}, l \in {S_High, S_Medium, S_Low, L_Critical},
        n \in Numerals, x \in {<<>>, <<"%">>, <<"\r">>} }

\* Lines that are not of the documented form.
OtherLines ==
    { OtherLine(r) : r \in {X_Intro, X_NoCredibility, X_LowerCase, X_Negative, <<>>, <<" ">>} }

\* The answers of the model to the trending-topics prompt, line by line.
LineAnswers ==
    SeqsUpTo({LineA, LineB, LineIntro}, MaxLines)
      \cup SeqsUpTo({LineBlank}, MaxBlankLines)
      \cup { <<l>> : l \in TopicLines \cup OtherLines }

\* The text of an answer: its lines joined by line feeds.
AnswerText(ls) == Join([i \in 1..Len(ls) |-> ls[i].raw], <<"\n">>)

\* A JSON candidate: its characters and whether it is a JSON text.
Candidate(raw, valid) == [raw |-> raw, valid |-> valid]
JsonAnswers ==
    { Candidate(J_Template, TRUE), Candidate(J_Verdict, TRUE), Candidate(J_Null, TRUE),
      Candidate(J_Number, TRUE), Candidate(J_Empty, FALSE), Candidate(J_Prose, FALSE),
      Candidate(J_Open, FALSE), Candidate(J_TrailingComma, FALSE) }

\* A code fence: what is put before and after the JSON text.
NoFence == [pre |-> <<>>, post |-> <<>>]
Fences ==
    { [pre |-> a, post |-> b] :
        a \in {F_Json, F_JsonNl, F_JsonOuter, F_Plain, F_PlainNl},
        b \in {F_Close, F_CloseNl, F_CloseOuter} }
Wrap(f, raw) == f.pre \o raw \o f.post

\* The characters generated JSON candidates are made of.
InnerAlphabet == {"1", "[", "]", ",", " "}
GeneratedCandidates ==
    { Candidate(s, JSONparse(s).kind = "return") : s \in SeqsUpTo(InnerAlphabet, MaxInnerLen) }

-----------------------------------------------------------------------------
(* A direct call of a service operation.                                   *)

JsonOperations ==
    {"analyzeImageForAI", "analyzeVoiceForAI", "analyzeArticleContent",
     "generateAwarenessTemplateText"}
Operations == JsonOperations \cup {"getTrendingTopics"}

\* The operation's frame when it returns, for the way its gateway call
\* settled: its local topics (getTrendingTopics only) and what it returns.
Invoke(o, resp) ==
    CASE o = "analyzeImageForAI" -> [topics |-> <<>>, returned |-> analyzeImageForAI(resp)]
      [] o = "analyzeVoiceForAI" -> [topics |-> <<>>, returned |-> analyzeVoiceForAI(resp)]
      [] o = "analyzeArticleContent" ->
             [topics |-> <<>>, returned |-> analyzeArticleContent(resp)]
      [] o = "generateAwarenessTemplateText" ->
             [topics |-> <<>>, returned |-> generateAwarenessTemplateText(resp)]
      [] o = "getTrendingTopics" -> getTrendingTopicsFrame(resp)

NoCandidate == Candidate(<<>>, FALSE)

SvcIdle ==
    /\ op = "idle" /\ phase = "idle" /\ response = Rejected /\ topics = <<>>
    /\ returned = Return(<<>>) /\ inner = NoCandidate /\ fence = NoFence /\ lines = <<>>

\* The caller invokes o; the operation suspends at await generateContent.
Call(o) ==
    /\ phase = "idle"
    /\ op' = o
    /\ phase' = "awaiting"
    /\ UNCHANGED <<response, topics, returned, inner, fence, lines>>
    /\ UNCHANGED <<tplVars, ttVars>>

\* The gateway call settles as resp and the operation runs to its return.
Settle(resp, cand, f, ls) ==
    /\ phase = "awaiting"
    /\ response' = resp
    /\ inner' = cand
    /\ fence' = f
    /\ lines' = ls
    /\ \E frame \in {Invoke(op, resp)} :
          /\ topics' = frame.topics
          /\ returned' = frame.returned
    /\ phase' = "returned"
    /\ UNCHANGED <<op, tplVars, ttVars>>

GatewayRejects == Settle(Rejected, NoCandidate, NoFence, <<>>)

GatewayResolvesWithoutText == Settle(NoText, NoCandidate, NoFence, <<>>)

GatewayResolvesJson ==
    /\ op \in JsonOperations
    /\ \E cand \in JsonAnswers, f \in Fences \cup {NoFence} :
          Settle(Resolved(Wrap(f, cand.raw)), cand, f, <<>>)

GatewayResolvesLines ==
    /\ op = "getTrendingTopics"
    /\ \E ls \in LineAnswers : Settle(Resolved(AnswerText(ls)), NoCandidate, NoFence, ls)

\* The caller has the result; the next call may start.
Finish ==
    /\ phase = "returned"
    /\ op' = "idle" /\ phase' = "idle" /\ response' = Rejected /\ topics' = <<>>
    /\ returned' = Return(<<>>) /\ inner' = NoCandidate /\ fence' = NoFence /\ lines' = <<>>
    /\ UNCHANGED <<tplVars, ttVars>>

ServiceNext ==
    \/ \E o \in Operations : Call(o)
    \/ GatewayRejects
    \/ GatewayResolvesWithoutText
    \/ GatewayResolvesJson
    \/ GatewayResolvesLines
    \/ Finish

\* cleanAndParseJson applied to a candidate, as it is or inside a fence.
Normalize ==
    /\ phase = "idle"
    /\ op' = "cleanAndParseJson"
    /\ \E cand \in GeneratedCandidates \cup JsonAnswers, f \in Fences \cup {NoFence} :
          /\ response' = Resolved(Wrap(f, cand.raw))
          /\ inner' = cand
          /\ fence' = f
          /\ returned' = cleanAndParseJson(Wrap(f, cand.raw))
    /\ phase' = "returned"
    /\ UNCHANGED <<topics, lines, tplVars, ttVars>>

NormalizerNext ==
    \/ Normalize
    \/ Finish

-----------------------------------------------------------------------------
(* AwarenessTemplatesPage.                                                 *)

\* Most submissions of one visit of the page that reach the service.
MaxSubmissions == 3

\* What the user may type.
Prompts == {<<>>, <<" ">>, <<" ", "\n">>, <<"a">>, <<" ", "a", " ">>}

\* How the gateway may settle a call made from a screen.
TemplateResponses ==
    {Rejected, NoText}
      \cup { Resolved(Wrap(f, c.raw)) :
               c \in JsonAnswers,
               f \in {NoFence, [pre |-> F_JsonNl, post |-> F_CloseNl]} }

TopicsResponses ==
    {Rejected, NoText}
      \cup { Resolved(AnswerText(ls)) :
               ls \in SeqsUpTo({LineA, LineIntro}, 2) \cup {<<LineBlank, LineBlank>>} }

\* How a settled call is classed: the call was rejected, or it resolved and
\* the normalizer failed on its text, or it resolved with a text that parsed.
OutcomeOfJson(resp) ==
    IF resp.kind = "rejected" THEN "rejected"
    ELSE IF resp.kind = "notext" \/ cleanAndParseJson(resp.text).kind = "throw"
    THEN "unparsable"
    ELSE "resolved"

OutcomeOfLines(resp) ==
    IF resp.kind = "rejected" THEN "rejected"
    ELSE IF resp.kind = "notext" \/ Len(topicsOf(resp.text)) = 0 THEN "unparsable"
    ELSE "resolved"

TplInit ==
    /\ prompt = <<>> /\ tplLoading = FALSE /\ tplResult = <<>> /\ tplError = <<>>
    /\ tplInFlight = {} /\ tplIssued = 0 /\ tplApplied = 0 /\ tplOutcome = "none"
    /\ tplPrompts = {}

\* The textarea (lines 69-75): disabled while loading.
EditPrompt(p) ==
    /\ ~tplLoading
    /\ p # prompt
    /\ prompt' = p
    /\ UNCHANGED <<tplLoading, tplResult, tplError, tplInFlight, tplIssued, tplApplied,
                   tplOutcome, tplPrompts>>
    /\ UNCHANGED <<ttVars, svcVars>>

\* A faulty disabled attribute: the button stays enabled while loading.
generateDisabledWhenEmpty == prompt = <<>>

\* The button's disabled attribute (line 79): isLoading || !prompt
generateDisabled == tplLoading \/ prompt = <<>>

\* A faulty guard: the prompt is not trimmed.
promptIsEmpty(p) == p = <<>>

\* The guard of handleGenerate (line 21): !prompt.trim()
promptIsBlank(p) == trim(p) = <<>>

\* A value as React state that is tested for truth (result && ...): null
\* shows nothing.
AsState(val) == IF val = JLit("null") THEN <<>> ELSE <<val>>

\* A click on "Generate Template": handleGenerate up to its await (lines 20-30).
handleGenerate ==
    /\ ~generateDisabled
    /\ UNCHANGED <<ttVars, svcVars>>
    /\ IF promptIsBlank(prompt)
       THEN /\ tplError' = <<"Prompt cannot be empty.">>
            /\ UNCHANGED <<prompt, tplLoading, tplResult, tplInFlight, tplIssued, tplApplied,
                           tplOutcome, tplPrompts>>
       ELSE /\ tplIssued < MaxSubmissions
            /\ tplLoading' = TRUE
            /\ tplResult' = <<>>
            /\ tplError' = <<>>
            /\ tplIssued' = tplIssued + 1
            /\ tplInFlight' = tplInFlight \cup {tplIssued + 1}
            /\ tplPrompts' = tplPrompts \cup {prompt}
            /\ UNCHANGED <<prompt, tplApplied, tplOutcome>>

\* A faulty handleGenerate: without the finally block of lines 35-37.
TemplateSettlesWithoutFinally(id, resp) ==
    /\ id \in tplInFlight
    /\ \E generatedContent \in {generateAwarenessTemplateText(resp)} :
          IF generatedContent.kind = "return"
          THEN /\ tplResult' = AsState(generatedContent.val)
               /\ tplError' = tplError
          ELSE /\ tplError' = <<"Failed to generate the template. Please try again.">>
               /\ tplResult' = tplResult
    /\ tplInFlight' = tplInFlight \ {id}
    /\ tplApplied' = id
    /\ tplOutcome' = OutcomeOfJson(resp)
    /\ UNCHANGED <<prompt, tplLoading, tplIssued, tplPrompts>>
    /\ UNCHANGED <<ttVars, svcVars>>

\* The gateway call of submission id settles as resp: the service returns
\* and handleGenerate runs from its await to its end (lines 30-37).
TemplateSettles(id, resp) ==
    /\ id \in tplInFlight
    /\ \E generatedContent \in {generateAwarenessTemplateText(resp)} :
          IF generatedContent.kind = "return"
          THEN /\ tplResult' = AsState(generatedContent.val)
               /\ tplError' = tplError
          ELSE /\ tplError' = <<"Failed to generate the template. Please try again.">>
               /\ tplResult' = tplResult
    /\ tplLoading' = FALSE
    /\ tplInFlight' = tplInFlight \ {id}
    /\ tplApplied' = id
    /\ tplOutcome' = OutcomeOfJson(resp)
    /\ UNCHANGED <<prompt, tplIssued, tplPrompts>>
    /\ UNCHANGED <<ttVars, svcVars>>

-----------------------------------------------------------------------------
(* TrendingTopicsPage.                                                     *)

TtInit ==
    /\ ttPc = "constructed" /\ ttTopics = <<>> /\ ttLoading = TRUE /\ ttError = <<>>
    /\ ttInFlight = 0 /\ ttOutcome = "none"

\* The mount effect: fetchTopics up to its await (lines 18-23, 37).
fetchTopics ==
    /\ ttPc = "constructed"
    /\ ttLoading' = TRUE
    /\ ttError' = <<>>
    /\ ttInFlight' = ttInFlight + 1
    /\ ttPc' = "fetching"
    /\ UNCHANGED <<ttTopics, ttOutcome>>
    /\ UNCHANGED <<tplVars, svcVars>>

\* The gateway call settles as resp: the service returns and fetchTopics
\* runs from its await to its end (lines 23-34).
TopicsSettle(resp) ==
    /\ ttPc = "fetching"
    /\ ttInFlight > 0
    /\ \E fetchedTopics \in {getTrendingTopics(resp)} :
          IF fetchedTopics.kind = "return"
          THEN IF Len(fetchedTopics.val) > 0
               THEN /\ ttTopics' = fetchedTopics.val
                    /\ ttError' = ttError
               ELSE /\ ttError' = <<"No trending topics could be fetched at this time.">>
                    /\ ttTopics' = ttTopics
          ELSE /\ ttError' = <<"Failed to fetch trending topics.">>
               /\ ttTopics' = ttTopics
    /\ ttLoading' = FALSE
    /\ ttInFlight' = ttInFlight - 1
    /\ ttOutcome' = OutcomeOfLines(resp)
    /\ ttPc' = "settled"
    /\ UNCHANGED <<tplVars, svcVars>>

-----------------------------------------------------------------------------
(* The specifications.                                                     *)

Init == TplInit /\ TtInit /\ SvcIdle

\* The two screens, each with its own state.
Next ==
    \/ \E p \in Prompts : EditPrompt(p)
    \/ handleGenerate
    \/ \E id \in tplInFlight, resp \in TemplateResponses : TemplateSettles(id, resp)
    \/ fetchTopics
    \/ \E resp \in TopicsResponses : TopicsSettle(resp)

Spec == Init /\ [][Next]_vars

\* The service operations called directly, over the answers of the model.
SpecService == Init /\ [][ServiceNext]_vars

\* The normalizer applied to generated texts.
SpecNormalizer == Init /\ [][NormalizerNext]_vars

\* Some outstanding call of the template screen settles.  (The first
\* conjunct is what TemplateSettles sets in its finally block.)
TemplateCallSettles ==
    /\ tplLoading' = FALSE
    /\ \E id \in tplInFlight, resp \in TemplateResponses : TemplateSettles(id, resp)

\* The call of the trending-topics screen settles.
TopicsCallSettles ==
    /\ ttPc' = "settled"
    /\ \E resp \in TopicsResponses : TopicsSettle(resp)

\* Every gateway call settles (the promise of generateContent resolves or
\* rejects), and React runs the mount effect of a mounted page.
CallsSettle ==
    /\ WF_vars(TemplateCallSettles)
    /\ WF_vars(fetchTopics)
    /\ WF_vars(TopicsCallSettles)

\* The two screens when every gateway call settles.
SpecLive == Init /\ [][Next]_vars /\ CallsSettle

-----------------------------------------------------------------------------
(* Properties of the service operations (SpecService, SpecNormalizer).     *)

\* The value of member key of a JSON object, null when there is none.
Member(obj, key) ==
    IF obj.t = "object" /\ \E m \in 1..Len(obj.v) : obj.v[m][1] = key
    THEN obj.v[CHOOSE m \in 1..Len(obj.v) : obj.v[m][1] = key][2]
    ELSE JLit("null")

\* The fixed fallback value of each operation, as the specification lists it.
IsFallbackOf(o, val) ==
    CASE o \in {"analyzeImageForAI", "analyzeVoiceForAI"} ->
             /\ Member(val, K_classification) = JStr(S_Uncertain)
             /\ Member(val, K_confidence) = JNum(0)
      [] o = "analyzeArticleContent" ->
             /\ Member(val, K_riskLevel) = JStr(S_High)
             /\ Member(val, K_credibilityScore) = JNum(0)
             /\ Member(val, K_tags) = JArr(<<>>)
             /\ Member(val, K_claims) = JArr(<<>>)
      [] o = "generateAwarenessTemplateText" ->
             Member(val, K_title) = JStr(S_Error)
      [] o = "getTrendingTopics" ->
             val = << [topic |-> S_ErrorFetching, risk |-> S_High, score |-> 0] >>

\* An operation has returned to its caller.
Returned(o) == phase = "returned" /\ op = o

\* The gateway call failed: it rejected, or its response carries no text.
CallFailed == response.kind \in {"rejected", "notext"}

\* The text the gateway delivered is not JSON, fenced or not.
TextFailsToParse ==
    response.kind = "text" /\ cleanAndParseJson(response.text).kind = "throw"

\* C1 (as amended): no operation throws to its caller.  Each of the four
\* JSON operations returns its fixed fallback value when the gateway call
\* fails or the delivered text is not JSON; getTrendingTopics, which parses
\* no JSON, returns its one error record when the gateway call fails.
C1_FallbackOnFailure ==
    (phase = "returned" /\ op \in Operations) =>
        /\ returned.kind = "return"
        /\ (op \in JsonOperations /\ (CallFailed \/ ~inner.valid \/ TextFailsToParse))
              => IsFallbackOf(op, returned.val)
        /\ (op = "getTrendingTopics" /\ CallFailed) => IsFallbackOf(op, returned.val)

\* C1 witness: analyzeArticleContent was given a fenced text that is not
\* JSON and returned its fallback value.
C1_Witness ==
    /\ Returned("analyzeArticleContent")
    /\ inner.raw = J_TrailingComma /\ fence = [pre |-> F_JsonNl, post |-> F_CloseNl]
    /\ returned = Return(ArticleFallback)

\* C1 as stated: every operation, getTrendingTopics included, returns its
\* fixed fallback value when the call rejects or the text is not JSON.
C1_AsStated ==
    (phase = "returned" /\ op \in Operations
        /\ (response.kind = "rejected" \/ TextFailsToParse))
      => (returned.kind = "return" /\ IsFallbackOf(op, returned.val))

\* C2: for a JSON text J, cleanAndParseJson of J inside a fence (tagged
\* "json" or not, with or without white space around the fence and around
\* J) returns the value that cleanAndParseJson of J alone returns.
C2_FenceRoundTrip ==
    (Returned("cleanAndParseJson") /\ inner.valid /\ fence # NoFence) =>
        /\ returned.kind = "return"
        /\ returned = cleanAndParseJson(inner.raw)

\* C2 witness: "[1]" inside a tagged fence with white space around it was
\* parsed to the array of 1.
C2_Witness ==
    /\ Returned("cleanAndParseJson")
    /\ inner.raw = <<"[", "1", "]">>
    /\ fence = [pre |-> F_JsonOuter, post |-> F_CloseOuter]
    /\ returned = Return(JArr(<<JNum(1)>>))

\* The records of the lines that are of the documented form, in line order.
ExpectedRecords(ls) ==
    LET kept == SelectSeq(ls, LAMBDA l : l.match)
    IN  [i \in 1..Len(kept) |-> kept[i].rec]

\* C3: the local topics of getTrendingTopics are the records of exactly the
\* matching lines, in the order of their lines; other lines leave nothing.
C3_MatchingLinesInOrder ==
    (Returned("getTrendingTopics") /\ response.kind = "text") =>
        topics = ExpectedRecords(lines)

\* C3 witness: of six lines two matched, the lower score first, and the two
\* records were returned in that order.
C3_Witness ==
    /\ Returned("getTrendingTopics")
    /\ lines = <<LineIntro, LineA, LineIntro, LineIntro, LineB, LineIntro>>
    /\ returned = Return(<<LineA.rec, LineB.rec>>)
    /\ LineA.rec.score < LineB.rec.score

\* C4: getTrendingTopics returns at most 5 records on every path, and the
\* records of the first 5 matching lines when more than 5 lines match.
C4_AtMostFive ==
    Returned("getTrendingTopics") =>
        /\ returned.kind = "return"
        /\ Len(returned.val) <= 5
        /\ (response.kind = "text" /\ Len(ExpectedRecords(lines)) > 5)
              => returned.val = SubSeq(ExpectedRecords(lines), 1, 5)

\* C4 witness: six lines matched and five records were returned.
C4_Witness ==
    /\ Returned("getTrendingTopics")
    /\ Len(lines) > 5 /\ \A i \in 1..Len(lines) : lines[i].match
    /\ Len(topics) > 5
    /\ Len(returned.val) = 5

\* C5: one line "[ordinal] title - Risk: level - Credibility: integer"
\* yields the record of the title without ordinal and quotation marks, the
\* level and the integer; the specification's example line yields
\* {topic: "Fake vaccine claim", risk: "High", score: 12}.
C5_LineYieldsRecord ==
    (Returned("getTrendingTopics") /\ response.kind = "text") =>
        /\ (Len(lines) = 1 /\ lines[1].match) => returned = Return(<<lines[1].rec>>)
        /\ response.text = E_Line
              => returned.val = << [topic |-> T_FakeVaccine, risk |-> S_High, score |-> 12] >>

\* C5 witness: the example line was parsed.
C5_Witness ==
    /\ Returned("getTrendingTopics")
    /\ response = Resolved(E_Line)
    /\ returned.val[1].topic = T_FakeVaccine

\* C6: a non-empty text of which no line matches yields the one placeholder
\* record; the empty list is returned only for the empty text.
C6_PlaceholderOrEmpty ==
    Returned("getTrendingTopics") =>
        /\ (response.kind = "text" /\ response.text # <<>>
              /\ \A i \in 1..Len(lines) : ~lines[i].match)
              => returned.val = << [topic |-> S_CouldNotParse, risk |-> S_Medium,
                                    score |-> 50] >>
        /\ returned.val = <<>> => (response.kind = "text" /\ response.text = <<>>)

\* C6 witness: a text of two blank lines gave the placeholder record.
C6_Witness ==
    /\ Returned("getTrendingTopics")
    /\ response = Resolved(<<"\n">>)
    /\ Len(returned.val) = 1 /\ returned.val[1].topic = S_CouldNotParse

\* The fourth risk level the specification names.
S_Unknown == <<"U", "n", "k", "n", "o", "w", "n">>

\* C10 as stated: every record getTrendingTopics returns has a risk among
\* High, Medium, Low, Unknown and a score from 0 to 100.
C10_RiskAndScoreInRange ==
    Returned("getTrendingTopics") =>
        \A i \in 1..Len(returned.val) :
            /\ returned.val[i].risk \in {S_High, S_Medium, S_Low, S_Unknown}
            /\ returned.val[i].score \in 0..100

-----------------------------------------------------------------------------
(* Properties of the screens (Spec).                                       *)

\* A prompt that is empty or holds white space only.
Blank(p) == \A i \in 1..Len(p) : p[i] \in WhiteSpace

\* C7: a submission with a blank prompt sets the error "Prompt cannot be
\* empty." and leaves the screen out of Loading; no step calls
\* generateAwarenessTemplateText with a blank prompt.
C7_BlankPromptRejected ==
    [][ /\ \A p \in (tplPrompts' \ tplPrompts) : ~Blank(p)
        /\ (tplIssued' # tplIssued \/ (~tplLoading /\ tplLoading')) => ~Blank(prompt)
        /\ (handleGenerate /\ Blank(prompt))
              => /\ tplError' = <<"Prompt cannot be empty.">>
                 /\ ~tplLoading'
                 /\ tplInFlight' = {} ]_vars

\* C7 witness: a prompt of white space was submitted and rejected before
\* any call of the service.
C7_Witness ==
    /\ prompt = <<" ", "\n">>
    /\ tplError = <<"Prompt cannot be empty.">>
    /\ ~tplLoading /\ tplIssued = 0 /\ tplPrompts = {}

\* C8: each screen has at most one gateway request outstanding, only while
\* it is loading, and the template screen has applied every earlier
\* submission when one is outstanding.
C8_OneOutstandingRequest ==
    /\ Cardinality(tplInFlight) <= 1
    /\ tplInFlight # {} => tplLoading
    /\ tplInFlight \subseteq {tplIssued}
    /\ tplApplied = tplIssued - Cardinality(tplInFlight)
    /\ ttInFlight <= 1
    /\ ttInFlight > 0 => ttLoading

\* C8 witness: the second submission is outstanding after the first was
\* applied.
C8_Witness ==
    /\ tplInFlight = {2} /\ tplIssued = 2 /\ tplApplied = 1 /\ tplLoading
    /\ ttInFlight = 1

\* The template screen shows the outcome of its latest submission.
TplSettled == tplApplied > 0 /\ tplApplied = tplIssued /\ ~tplLoading

\* C9 as stated: a screen that left Loading shows a result when the gateway
\* resolved, and an error message without a result when the gateway
\* rejected or the normalizer failed.
C9_ResultOrError ==
    /\ (TplSettled /\ tplOutcome \in {"rejected", "unparsable"})
          => (tplError # <<>> /\ tplResult = <<>>)
    /\ (TplSettled /\ tplOutcome = "resolved")
          => tplError # <<"Failed to generate the template. Please try again.">>
    /\ (ttPc = "settled" /\ ttOutcome = "rejected")
          => (ttError # <<>> /\ ttTopics = <<>>)
    /\ (ttPc = "settled" /\ ttOutcome = "resolved")
          => (ttError = <<>> /\ ttTopics # <<>>)

\* C11: when every gateway call settles, a screen that is loading leaves
\* Loading, whatever the outcome of the call; a screen is loading only
\* while its call has not settled.
C11_LoadingEnds ==
    /\ tplLoading ~> ~tplLoading
    /\ ttLoading ~> ~ttLoading
    /\ [](tplLoading => tplInFlight # {})
    /\ [](ttLoading => ttPc # "settled")

\* C11 witness: both screens have left Loading after a rejected call, the
\* template screen for the second time.
C11_Witness ==
    /\ tplApplied = 2 /\ tplOutcome = "rejected" /\ ~tplLoading
    /\ ttPc = "settled" /\ ttOutcome = "rejected" /\ ~ttLoading

\* C12 as stated: the template screen is in exactly one of Idle, Loading,
\* Result and Error: it never holds a result and an error message together,
\* and holds neither while it is loading.
C12_ExactlyOneState ==
    /\ ~(tplResult # <<>> /\ tplError # <<>>)
    /\ tplLoading => (tplResult = <<>> /\ tplError = <<>>)
====
